---- MODULE Spec2Model ----
(***************************************************************************)
(* Model of src/index.js: three pasted variants of one Express backend.    *)
(*   variant 1 = lines 1-171, variant 2 = lines 173-291,                    *)
(*   variant 3 = lines 293-431.                                             *)
(* Every variant serves GET /health, POST /chat and POST /ask.  /health    *)
(* and /chat are textually identical in the three variants; /ask differs.  *)
(* A handler runs synchronously up to its next `await`; the two awaits     *)
(* (PDF text extraction, axios.post to the generation service) are the     *)
(* points where the environment decides an outcome.  Requests share no     *)
(* mutable state (only the constant GEMINI_API_KEY), so one request is     *)
(* followed from arrival to completion and then the next one arrives.      *)
(***************************************************************************)
EXTENDS Integers, Sequences, FiniteSets, TLC

\* ------------------------------------------------------------------ bounds
MaxTextLen == 4          \* longest extracted text explored
MaxCandidates == 2       \* longest candidates list explored

\* ----------------------------------------------------- program constants
\* MAX_TEXT_LENGTH is 8000 (variant 1) and 15000 (variant 3) in the source;
\* both are scaled down, keeping their order, so that texts shorter than,
\* equal to and longer than each bound are explored.
MAX_TEXT_LENGTH_V1 == 2
MAX_TEXT_LENGTH_V3 == 3

\* ----------------------------------------------------------- value domains
Undefined == "<undefined>"                 \* the JS value undefined
Variants == {1, 2, 3}
Keys == {Undefined, "", "KEY-A", "KEY-B"}  \* process.env.GEMINI_API_KEY
Questions == {Undefined, "", "q1", "q2"}   \* req.body.question
Chars == {" ", "a", "b"}                   \* characters of an extracted text
AnswerTexts == {Undefined, "", "ans1", "ans2"}
UpstreamMsgs == {"up-msg-1", "up-msg-2"}   \* error.response.data.error.message
ErrorMsgs == {"err-msg-1", "err-msg-2"}    \* error.message of a rejection

RECURSIVE SeqsUpTo(_, _)
SeqsUpTo(S, n) ==
    IF n = 0 THEN {<<>>}
    ELSE LET shorter == SeqsUpTo(S, n - 1)
         IN  shorter \cup {Append(s, x) : s \in {t \in shorter : Len(t) = n - 1}, x \in S}

Texts == SeqsUpTo(Chars, MaxTextLen)

\* Falsy as a test against undefined only (an empty string passes)
Falsy_UndefinedOnly(v) == v = Undefined

\* JS truthiness of a string-or-undefined value: !v
Falsy(v) == v = Undefined \/ v = ""

\* String.prototype.substring(0, n)
Substring0(s, n) == SubSeq(s, 1, IF Len(s) < n THEN Len(s) ELSE n)

\* String.prototype.trim() === ''
TrimIsEmpty(s) == \A i \in 1..Len(s) : s[i] = " "

\* ------------------------------------------------------ configuration
\* The identifiers bound by the require() block at the top of each variant.
ModuleBindings == {"express", "cors", "axios", "multer", "pdf"}

\* The identifier the /ask handler calls to extract the text.
ExtractorName(v) == IF v = 1 THEN "pdfParse" ELSE "pdf"

\* Whether the /ask handler tests req.body.question before the try block.
ChecksQuestion(v) == v # 1

\* Whether the /ask handler rejects an empty or whitespace-only text.
ChecksBlankText(v) == v = 1

\* The template literal ends in "?key=$" NEWLINE "{GEMINI_API_KEY}": a "$"
\* separated from "{" by a line break is not an interpolation, so the URL
\* carries this literal text and not the value of the key.
GEMINI_API_URL == [endpoint |-> "gemini-1.5-flash:generateContent",
                   keyParam |-> "$ {GEMINI_API_KEY}"]

\* ------------------------------------------------------------- responses
\* An error body is the list of the pieces its message is made of: one
\* piece for a fixed message, two when a template literal appends a value.
Json(status, kind, body) == [status |-> status, kind |-> kind, body |-> body]

\* res.status(500).json({ error: parts joined })
ErrorResponse(status, parts) == Json(status, "error", parts)

\* res.json({ answer }): status 200; an undefined answer serialises to {}
AnswerResponse(answer) == Json(200, "answer", <<answer>>)

\* HealthResponse with the key echoed in the message
HealthResponse_EchoKey(key) ==
    IF key = Undefined \/ key = ""
    THEN Json(500, "health", <<"status", "error", "message", "GEMINI_API_KEY is not set">>)
    ELSE Json(200, "health", <<"status", "ok", "message", key>>)

\* GET /health: the body is the list field, value, field, value
HealthResponse(key) ==
    IF Falsy(key)
    THEN Json(500, "health", <<"status", "error", "message", "GEMINI_API_KEY is not set">>)
    ELSE Json(200, "health", <<"status", "ok", "message", "Server is running and API key is loaded">>)

\* ---------------------------------------------------------------- errors
\* A caught JS error: error.response (with its data), error.request and
\* error.message.
NoData == [present |-> FALSE, safety |-> FALSE, hasError |-> FALSE, errMessage |-> Undefined]

PlainError(message) ==
    [hasResponse |-> FALSE, data |-> NoData, hasRequest |-> FALSE, message |-> message]

ReferenceError == PlainError("pdfParse is not defined")
TypeError == PlainError("Cannot read properties of undefined")

ErrorDatas ==
    {NoData} \cup
    {[present |-> TRUE, safety |-> s, hasError |-> FALSE, errMessage |-> Undefined] : s \in BOOLEAN} \cup
    {[present |-> TRUE, safety |-> s, hasError |-> TRUE, errMessage |-> m] :
        s \in BOOLEAN, m \in UpstreamMsgs}

\* The rejections of axios.post: a non-2xx response, no response received,
\* or an error while setting up the request.
AxiosErrors ==
    {[hasResponse |-> TRUE, data |-> d, hasRequest |-> TRUE, message |-> m] :
        d \in ErrorDatas, m \in {"err-msg-1"}} \cup
    {[hasResponse |-> FALSE, data |-> NoData, hasRequest |-> TRUE, message |-> m] :
        m \in ErrorMsgs} \cup
    {PlainError(m) : m \in ErrorMsgs}

\* catch block of /chat
ChatCatch(error) == ErrorResponse(500, <<"Failed to get response from Gemini">>)

\* catch block of /ask, variant 1
AskCatchV1(error) ==
    IF error.hasResponse
    THEN IF error.data.present /\ error.data.safety
         THEN ErrorResponse(500, <<"Content violated safety guidelines or was blocked by Gemini.">>)
         ELSE IF error.data.present /\ error.data.hasError
         THEN ErrorResponse(500, <<"Gemini API Error: ", error.data.errMessage>>)
         ELSE ErrorResponse(500, <<"Failed to process the PDF or get an answer. Check server logs for details.">>)
    ELSE IF error.hasRequest
    THEN ErrorResponse(500, <<"No response from Gemini API. Check network or API URL.">>)
    ELSE ErrorResponse(500, <<"Failed to process the PDF or get an answer. Details: ", error.message>>)

\* catch block of /ask, variant 2
AskCatchV2(error) == ErrorResponse(500, <<"Failed to process the PDF or get an answer.">>)

\* catch block of /ask, variant 3
AskCatchV3(error) ==
    ErrorResponse(500, <<"Failed to process the PDF or get an answer. Check server logs for details.">>)

AskCatch(v, error) ==
    CASE v = 1 -> AskCatchV1(error)
      [] v = 2 -> AskCatchV2(error)
      [] v = 3 -> AskCatchV3(error)

\* ---------------------------------------------------------------- prompts
\* In variants 2 and 3 the template literal holds "$" NEWLINE "{pdfText}"
\* (resp. "{truncatedText}"): the "$" and the "{" are on different lines, so
\* nothing is interpolated and the prompt carries this literal text.
PdfTextLiteral == <<"$", "{pdfText}">>
TruncatedTextLiteral == <<"$", "{truncatedText}">>

\* /chat: the tutor template with ${question}
ChatPrompt(question) ==
    [template |-> "tutor", document |-> <<>>, question |-> question]

\* /ask, step Bound: the text handed to the prompt template
BoundText(v, text) ==
    CASE v = 1 -> IF Len(text) > MAX_TEXT_LENGTH_V1
                  THEN Substring0(text, MAX_TEXT_LENGTH_V1) ELSE text
      [] v = 2 -> text
      [] v = 3 -> Substring0(text, MAX_TEXT_LENGTH_V3)

\* /ask, step Compose: what the template literal evaluates to
AskPrompt(v, boundText, question) ==
    CASE v = 1 -> [template |-> "amc-expert", document |-> boundText, question |-> question]
      [] v = 2 -> [template |-> "exam-expert", document |-> PdfTextLiteral, question |-> question]
      [] v = 3 -> [template |-> "exam-expert", document |-> TruncatedTextLiteral, question |-> question]

NoPrompt == [template |-> "none", document |-> <<>>, question |-> Undefined]

\* The arguments of axios.post: URL, body and config.  No call passes a
\* timeout, and axios' default timeout is 0 (wait forever).
NoCall == [issued |-> FALSE, url |-> GEMINI_API_URL, urlSuffix |-> "", prompt |-> NoPrompt,
           keyHeader |-> Undefined, timeout |-> 0]

ChatCall(question) ==
    [issued |-> TRUE, url |-> GEMINI_API_URL, urlSuffix |-> "", prompt |-> ChatPrompt(question),
     keyHeader |-> Undefined, timeout |-> 0]

AskCall(v, key, prompt) ==
    IF v = 1
    THEN [issued |-> TRUE, url |-> GEMINI_API_URL, urlSuffix |-> ":generateContent",
          prompt |-> prompt, keyHeader |-> key, timeout |-> 0]
    ELSE [issued |-> TRUE, url |-> GEMINI_API_URL, urlSuffix |-> "", prompt |-> prompt,
          keyHeader |-> Undefined, timeout |-> 0]

\* ------------------------------------------------- the remote's 2xx body
\* A candidate: content.parts[0] present or not, and its text.
Candidates ==
    {[content |-> FALSE, text |-> Undefined]} \cup
    {[content |-> TRUE, text |-> t] : t \in AnswerTexts}

\* response.data: candidates absent or a list, promptFeedback.safetyRatings
\* present or not.
ResponseDatas ==
    {[hasCandidates |-> FALSE, candidates |-> <<>>, safety |-> s] : s \in BOOLEAN} \cup
    {[hasCandidates |-> TRUE, candidates |-> c, safety |-> s] :
        c \in SeqsUpTo(Candidates, MaxCandidates), s \in BOOLEAN}

NoResponseData == [hasCandidates |-> FALSE, candidates |-> <<>>, safety |-> FALSE]

\* The result of the statements between the await and the response: either
\* an answer or a thrown error.
Returned(answer) == [threw |-> FALSE, answer |-> answer, error |-> TypeError]
Threw(error) == [threw |-> TRUE, answer |-> Undefined, error |-> error]

\* response.data.candidates[0].content.parts[0].text
FirstCandidateText(data) ==
    IF ~data.hasCandidates \/ data.candidates = <<>> THEN Threw(TypeError)
    ELSE IF ~data.candidates[1].content THEN Threw(TypeError)
    ELSE Returned(data.candidates[1].text)

\* variant 1: candidates[0]?.content?.parts[0]?.text || 'No answer found.'
AnswerV1(data) ==
    IF ~data.hasCandidates THEN Threw(TypeError)
    ELSE IF data.candidates = <<>> THEN Returned("No answer found.")
    ELSE IF ~data.candidates[1].content THEN Returned("No answer found.")
    ELSE IF Falsy(data.candidates[1].text) THEN Returned("No answer found.")
    ELSE Returned(data.candidates[1].text)

\* AnswerV23 without the candidates check, reading the first candidate with
\* optional chaining and a fallback answer
AnswerV23_Fallback(v, data) ==
    IF ~data.hasCandidates \/ data.candidates = <<>> THEN Returned("No answer found.")
    ELSE FirstCandidateText(data)

\* variants 2 and 3: the candidates check, then the first candidate's text
AnswerV23(v, data) ==
    IF ~data.hasCandidates \/ Len(data.candidates) = 0
    THEN Threw(PlainError(IF v = 2 THEN "No response from Gemini API."
                          ELSE "API returned no candidates. The prompt may have been blocked for safety reasons."))
    ELSE FirstCandidateText(data)

AskAnswer(v, data) == IF v = 1 THEN AnswerV1(data) ELSE AnswerV23(v, data)

\* ------------------------------------------------------------------ state
VARIABLES
    variant,          \* which of the three pasted servers is running
    GEMINI_API_KEY,   \* process.env.GEMINI_API_KEY, read once at startup
    pc,               \* where the current request is
    req,              \* the current request: route, req.file, req.body.question
    extraction,       \* how the extraction call ended
    pdfText,          \* the text the extraction resolved with
    call,             \* the arguments of the axios.post of this request
    upstream,         \* how the axios.post ended
    responses,        \* the responses sent for this request, in order
    extractCalls,     \* calls of the extraction library for this request
    remoteCalls,      \* calls of axios.post for this request
    steps             \* the stages this request went through, in order

vars == <<variant, GEMINI_API_KEY, pc, req, extraction, pdfText, call, upstream,
          responses, extractCalls, remoteCalls, steps>>

NoReq == [route |-> "none", file |-> FALSE, question |-> Undefined]
NoUpstream == [kind |-> "none", data |-> NoResponseData, error |-> TypeError]

Init ==
    /\ variant \in Variants
    /\ GEMINI_API_KEY \in Keys
    /\ pc = "idle"
    /\ req = NoReq
    /\ extraction = "none"
    /\ pdfText = <<>>
    /\ call = NoCall
    /\ upstream = NoUpstream
    /\ responses = <<>>
    /\ extractCalls = 0
    /\ remoteCalls = 0
    /\ steps = <<>>

\* Send without the return: the handler falls through to a second response
Send_FallThrough(response, stages) ==
    /\ responses' = responses \o <<response, response>>
    /\ steps' = steps \o stages \o <<"respond">>
    /\ pc' = "done"

\* res.status(..).json(..) followed by the end of the handler
Send(response, stages) ==
    /\ responses' = Append(responses, response)
    /\ steps' = steps \o stages \o <<"respond">>
    /\ pc' = "done"

\* GET /health
Health ==
    /\ pc = "idle"
    /\ req' = [route |-> "health", file |-> FALSE, question |-> Undefined]
    /\ Send(HealthResponse(GEMINI_API_KEY), <<>>)
    /\ UNCHANGED <<variant, GEMINI_API_KEY, extraction, pdfText, call, upstream,
                   extractCalls, remoteCalls>>

\* POST /chat up to the await of axios.post
ChatArrive(question) ==
    /\ pc = "idle"
    /\ req' = [route |-> "chat", file |-> FALSE, question |-> question]
    /\ IF Falsy(question)
       THEN /\ Send(ErrorResponse(400, <<"Question is required">>), <<"validate">>)
            /\ UNCHANGED <<call, remoteCalls>>
       ELSE /\ call' = ChatCall(question)
            /\ remoteCalls' = remoteCalls + 1
            /\ steps' = steps \o <<"validate", "compose", "invoke">>
            /\ pc' = "awaitRemote"
            /\ UNCHANGED responses
    /\ UNCHANGED <<variant, GEMINI_API_KEY, extraction, pdfText, upstream, extractCalls>>

\* POST /ask up to the await of the extraction call
AskArrive(file, question) ==
    /\ pc = "idle"
    /\ req' = [route |-> "ask", file |-> file, question |-> question]
    /\ IF ~file
       THEN /\ Send(ErrorResponse(400, <<"No PDF file uploaded.">>), <<"validate">>)
            /\ UNCHANGED <<extraction, extractCalls>>
       ELSE IF ChecksQuestion(variant) /\ Falsy(question)
       THEN /\ Send(ErrorResponse(400, <<"No question was provided.">>), <<"validate">>)
            /\ UNCHANGED <<extraction, extractCalls>>
       ELSE IF ExtractorName(variant) \notin ModuleBindings
       THEN \* evaluating the unbound identifier throws inside the try block
            /\ extraction' = "threw"
            /\ Send(AskCatch(variant, ReferenceError), <<"validate">>)
            /\ UNCHANGED extractCalls
       ELSE /\ extraction' = "pending"
            /\ extractCalls' = extractCalls + 1
            /\ steps' = steps \o <<"validate", "extract">>
            /\ pc' = "awaitExtract"
            /\ UNCHANGED responses
    /\ UNCHANGED <<variant, GEMINI_API_KEY, pdfText, call, upstream, remoteCalls>>

\* the extraction promise resolves: /ask from there to the await of axios.post
ExtractResolve(text) ==
    /\ pc = "awaitExtract"
    /\ extraction' = "resolved"
    /\ pdfText' = text
    /\ IF ChecksBlankText(variant) /\ (text = <<>> \/ TrimIsEmpty(text))
       THEN /\ Send(ErrorResponse(500, <<"Failed to extract text from PDF.">>), <<>>)
            /\ UNCHANGED <<call, remoteCalls>>
       ELSE /\ call' = AskCall(variant, GEMINI_API_KEY,
                               AskPrompt(variant, BoundText(variant, text), req.question))
            /\ remoteCalls' = remoteCalls + 1
            /\ steps' = steps \o (IF variant = 2 THEN <<>> ELSE <<"bound">>)
                              \o <<"compose", "invoke">>
            /\ pc' = "awaitRemote"
            /\ UNCHANGED responses
    /\ UNCHANGED <<variant, GEMINI_API_KEY, req, upstream, extractCalls>>

\* the extraction promise rejects: the catch block answers
ExtractReject(message) ==
    /\ pc = "awaitExtract"
    /\ extraction' = "rejected"
    /\ Send(AskCatch(variant, PlainError(message)), <<>>)
    /\ UNCHANGED <<variant, GEMINI_API_KEY, req, pdfText, call, upstream,
                   extractCalls, remoteCalls>>

\* what the statements after the axios.post await produce
AfterRemote(route, v, data) ==
    IF route = "chat" THEN FirstCandidateText(data) ELSE AskAnswer(v, data)

\* res.json({ answer }) in /chat and variant 1, res.status(200).json in 2, 3
Catch(route, v, error) ==
    IF route = "chat" THEN ChatCatch(error) ELSE AskCatch(v, error)

\* axios.post resolves with a 2xx response
RemoteResolve(data) ==
    /\ pc = "awaitRemote"
    /\ upstream' = [kind |-> "resolved", data |-> data, error |-> TypeError]
    /\ LET result == AfterRemote(req.route, variant, data)
       IN  IF result.threw
           THEN Send(Catch(req.route, variant, result.error), <<>>)
           ELSE Send(AnswerResponse(result.answer), <<>>)
    /\ UNCHANGED <<variant, GEMINI_API_KEY, req, extraction, pdfText, call,
                   extractCalls, remoteCalls>>

\* The rejections axios.post can produce for a call: those of the network
\* and the remote, and the timeout error when the call sets a timeout.
TimeoutError ==
    [hasResponse |-> FALSE, data |-> NoData, hasRequest |-> TRUE, message |-> "timeout exceeded"]

AxiosRejections(c) == AxiosErrors \cup (IF c.timeout > 0 THEN {TimeoutError} ELSE {})

\* axios.post rejects: the catch block answers
RemoteReject(error) ==
    /\ pc = "awaitRemote"
    /\ error \in AxiosRejections(call)
    /\ upstream' = [kind |-> "rejected", data |-> NoResponseData, error |-> error]
    /\ Send(Catch(req.route, variant, error), <<>>)
    /\ UNCHANGED <<variant, GEMINI_API_KEY, req, extraction, pdfText, call,
                   extractCalls, remoteCalls>>

\* the request is over; the server waits for the next one
NextRequest ==
    /\ pc = "done"
    /\ pc' = "idle"
    /\ req' = NoReq
    /\ extraction' = "none"
    /\ pdfText' = <<>>
    /\ call' = NoCall
    /\ upstream' = NoUpstream
    /\ responses' = <<>>
    /\ extractCalls' = 0
    /\ remoteCalls' = 0
    /\ steps' = <<>>
    /\ UNCHANGED <<variant, GEMINI_API_KEY>>

ExtractSettle ==
    \/ \E text \in Texts : ExtractResolve(text)
    \/ \E message \in ErrorMsgs : ExtractReject(message)

\* axios' timer: fires only for a call that set a timeout
AxiosTimeout == call.timeout > 0 /\ RemoteReject(TimeoutError)

Next ==
    \/ Health
    \/ \E question \in Questions : ChatArrive(question)
    \/ \E file \in BOOLEAN, question \in Questions : AskArrive(file, question)
    \/ \E text \in Texts : ExtractResolve(text)
    \/ \E message \in ErrorMsgs : ExtractReject(message)
    \/ \E data \in ResponseDatas : RemoteResolve(data)
    \/ \E error \in AxiosErrors \cup {TimeoutError} : RemoteReject(error)
    \/ NextRequest

Spec == Init /\ [][Next]_vars

\* The extraction library settles every call, and axios' timer fires for a
\* call that set a timeout; the remote service itself may never answer.
FairSpec == Spec /\ WF_vars(ExtractSettle) /\ WF_vars(AxiosTimeout)

\* ================================================================ claims

\* --- C1 ---------------------------------------------------------------
\* C1 (as stated): a POST /ask without a file, or without a non-empty
\* question, is answered 400, and neither the extraction nor the remote
\* service is called for it.
C1_MissingInputIs400 ==
    (req.route = "ask" /\ (~req.file \/ req.question \in {Undefined, ""}))
        => /\ extractCalls = 0
           /\ remoteCalls = 0
           /\ pc = "done"
           /\ Len(responses) = 1
           /\ responses[1].status = 400

\* --- C2 ---------------------------------------------------------------
\* C2 (as stated): when the extraction returns an empty or whitespace-only
\* text for a POST /ask with a file and a question, the answer is 500 and
\* the remote service is never called.
C2_BlankTextIs500 ==
    (req.route = "ask" /\ extraction = "resolved"
        /\ \A i \in 1..Len(pdfText) : pdfText[i] = " ")
        => /\ remoteCalls = 0
           /\ ~call.issued
           /\ pc = "done"
           /\ Len(responses) = 1
           /\ responses[1].status = 500

\* --- C3 ---------------------------------------------------------------
\* C3 (as stated): the document text in the prompt of a POST /ask is the
\* first M characters of the extracted text when it is longer than the
\* truncation bound M, and the whole text otherwise.
C3_PromptHoldsBoundedText ==
    (req.route = "ask" /\ call.issued)
        => \E M \in {MAX_TEXT_LENGTH_V1, MAX_TEXT_LENGTH_V3} :
              call.prompt.document =
                  (IF Len(pdfText) > M THEN SubSeq(pdfText, 1, M) ELSE pdfText)

C5_ChatMissingQuestionIs400 ==
    (req.route = "chat" /\ req.question \in {Undefined, ""})
        => /\ remoteCalls = 0
           /\ ~call.issued
           /\ pc = "done"
           /\ Len(responses) = 1
           /\ responses[1].status = 400
           /\ responses[1].kind = "error"

C5_Witness ==
    /\ pc = "done"
    /\ req.route = "chat"
    /\ req.question = ""
    /\ responses = <<ErrorResponse(400, <<"Question is required">>)>>
    /\ remoteCalls = 0

\* --- C6 ---------------------------------------------------------------
\* The texts an error body must not carry: the key, the upstream's error
\* text, the text of an internal exception.
SensitiveTexts ==
    {"KEY-A", "KEY-B"} \cup UpstreamMsgs \cup ErrorMsgs \cup
    {"pdfParse is not defined", "Cannot read properties of undefined",
     "No response from Gemini API.",
     "API returned no candidates. The prompt may have been blocked for safety reasons.",
     "timeout exceeded"}

\* C6 (as stated): the error body of a failed /chat or /ask request is a
\* fixed generic message: no piece of it is the key, the upstream's error
\* text or the text of an internal exception.
C6_ErrorBodyIsGeneric ==
    \A i \in 1..Len(responses) :
        responses[i].kind = "error"
            => /\ Len(responses[i].body) = 1
               /\ \A j \in 1..Len(responses[i].body) :
                      responses[i].body[j] \notin SensitiveTexts

\* --- C7 ---------------------------------------------------------------
\* C7 (as stated): every remote call is issued with a timeout, so a request
\* waiting for the remote service eventually completes even when the
\* service never answers.
C7_RemoteCallCompletes == [](pc = "awaitRemote" => <>(pc = "done"))

\* --- C8 ---------------------------------------------------------------
\* C8: whatever the collaborators do, the remote service is called at most
\* once for a request, at most one response is sent for it, and a request
\* whose handler has finished got exactly one response.
C8_OneCallOneResponse ==
    /\ remoteCalls <= 1
    /\ extractCalls <= 1
    /\ Len(responses) <= 1
    /\ (pc = "done") <=> (Len(responses) = 1)
    /\ (upstream.kind # "none") => (remoteCalls = 1 /\ Len(responses) = 1)

C8_Witness ==
    /\ pc = "done"
    /\ req.route = "ask"
    /\ upstream.kind = "rejected"
    /\ upstream.error.hasResponse
    /\ upstream.error.data.present
    /\ ~upstream.error.data.safety
    /\ ~upstream.error.data.hasError
    /\ remoteCalls = 1
    /\ Len(responses) = 1

\* --- C9 ---------------------------------------------------------------
\* the stages of s appear in the order of t (s is a subsequence of t)
RECURSIVE InOrder(_, _)
InOrder(s, t) ==
    IF s = <<>> THEN TRUE
    ELSE IF t = <<>> THEN FALSE
    ELSE IF Head(s) = Head(t) THEN InOrder(Tail(s), Tail(t))
    ELSE InOrder(s, Tail(t))

\* C9 (as stated): a POST /ask with a file and a non-empty question, for
\* which no collaborator failed (the extraction did not reject and gave no
\* blank text, the remote call was not rejected and its first candidate
\* carries text), ends with status 200 and the first candidate's text,
\* after the stages validate, extract, bound, compose, invoke, respond.
C9_SuccessIs200 ==
    (/\ pc = "done"
     /\ req.route = "ask"
     /\ req.file
     /\ req.question \notin {Undefined, ""}
     /\ extraction # "rejected"
     /\ (extraction = "resolved" => \E i \in 1..Len(pdfText) : pdfText[i] # " ")
     /\ upstream.kind # "rejected"
     /\ (upstream.kind = "resolved"
            => /\ upstream.data.hasCandidates
               /\ Len(upstream.data.candidates) >= 1
               /\ upstream.data.candidates[1].content
               /\ upstream.data.candidates[1].text # Undefined))
        => /\ upstream.kind = "resolved"
           /\ responses = <<Json(200, "answer", <<upstream.data.candidates[1].text>>)>>
           /\ "extract" \in {steps[i] : i \in 1..Len(steps)}
           /\ "invoke" \in {steps[i] : i \in 1..Len(steps)}
           /\ InOrder(steps, <<"validate", "extract", "bound", "compose", "invoke", "respond">>)

\* --- C10 --------------------------------------------------------------
\* the value a body (field, value, field, value) gives to a field
HasField(body, field, value) ==
    \E i \in 1..(Len(body) - 1) : i % 2 = 1 /\ body[i] = field /\ body[i + 1] = value

====
